---- MODULE Spec2Model ----
(***************************************************************************)
(* Model of the tutorial notebooks                                         *)
(*   src/notebooks/03_autoencoders.ipynb   (encoders, decoders)            *)
(*   src/notebooks/04_attention.ipynb      (FCN, self-attention)           *)
(* and of their data preparation and training loops (train_autoencoder,    *)
(* train_regression).                                                      *)
(*                                                                         *)
(* Tensors are modelled by their shape where a cell only checks shapes,    *)
(* and by integer matrices where a cell computes with the entries.  A      *)
(* raised exception is a value of its own kind and is propagated by every  *)
(* later operation, the way a notebook variable that was never assigned    *)
(* makes the following statements fail.                                    *)
(***************************************************************************)
EXTENDS Integers, Sequences, FiniteSets, TLC

(***************************************************************************)
(* Bounds of the model.                                                    *)
(***************************************************************************)
MaxBatch == 2
MaxWidth == 9
MaxLayers == 4
MaxChannels == 2
MaxSeq == 3
MaxInChannels == 2
MaxKsize == 4
MaxAttnIn == 1
MaxAttnSeq == 2
MaxAttnChannels == 2
MaxTrainLen == 3
MaxTestLen == 1
MaxSamples == 2
MaxEpochs == 2

(***************************************************************************)
(* Program constants.                                                      *)
(***************************************************************************)
DefaultNLayers == 3
DefaultNChannels == 16
EncInputDim == 40
DecInputDim == 10
TestBatch == 8
DefaultKsize == 5
DefaultNumChannels == 64
DefaultNumLayers == 4
SeqLength == 64
BatchSize == 64

VARIABLES
    \* notebook 03: the cells that build and try the autoencoders
    pc03,           \* the next cell to run
    nlayers,        \* constructor argument nlayers
    nchannels,      \* constructor argument nchannels
    enc_inputdim,   \* constructor argument inputdim of MyLinearEncoder
    dec_inputdim,   \* constructor argument inputdim of MyLinearDecoder
    Xtest,          \* the test batch
    latent_h,       \* enc(Xtest)
    Xt_prime,       \* dec(latent_h)
    Xt_prime_ae,    \* model(Xtest), model = MyAutoencoder(...)
    latent_h_,      \* lenc(Xtest_)
    Xtest_prime_,   \* ldec(latent_h_)
    Xt_prime_lae,   \* lmodel(Xtest), lmodel = MyLinearAutoencoder(...)
    \* notebook 04: the cells that build and try the regression models
    pc04,           \* the next cell to run
    inshape,        \* constructor argument inshape = (C, T)
    num_channels,   \* constructor argument num_channels
    ksize,          \* constructor argument ksize
    num_layers,     \* constructor argument num_layers of RegressionFCN
    first_x,        \* the first batch of inputs
    first_y,        \* the first batch of targets
    output_fcn,     \* output = plainfcn(first_x)
    output_attn,    \* output = attmodel(first_x)
    output_tattn,   \* output = tattmodel(first_x)
    \* notebook 04: one call of SelfAttention.forward on the entries
    pcSA,           \* "call" before the call, then "returned" or "raised"
    in_channels,    \* constructor argument in_channels
    out_channels,   \* constructor argument out_channels
    key_channels,   \* constructor argument key_channels
    sa_x,           \* the argument x, one batch element: in_channels rows
    conv_Q,         \* weight of conv_Q: key_channels x in_channels
    conv_K,         \* weight of conv_K: key_channels x in_channels
    conv_V,         \* weight of conv_V: out_channels x in_channels
    fwd,            \* the locals Q, K, V, K_t, A_, A, y of forward
    \* notebook 04: the cell that normalises the data
    pcN,            \* "cell" before the cell has run, then "done"
    train_input,    \* the entries of train_input
    train_targets,  \* the entries of train_targets
    test_input,     \* the entries of test_input
    test_targets,   \* the entries of test_targets
    x_min, x_max,   \* train_input.min(), train_input.max()
    y_min, y_max,   \* train_targets.min(), train_targets.max()
    x_, y_,         \* the normalised training data
    x_test_,        \* the normalised test inputs
    y_test_,        \* the normalised test targets
    \* notebooks 03 and 04: one call of train_autoencoder / train_regression
    pcT,            \* the next statement of the training function
    call,           \* the model passed as `model`: names the notebook's call
    opt_params,     \* the model whose parameters `opt` was built over
    n_train,        \* number of samples of the training set
    n_test,         \* number of samples of the test set
    max_epochs,     \* argument max_epochs
    ntrainsteps,    \* len(train_dataloader)
    nteststeps,     \* len(test_dataloader)
    epoch,          \* loop variable of the epoch loop
    idx,            \* loop variable of the batch loops
    train_loss,     \* buffer torch.zeros((ntrainsteps,))
    test_loss,      \* buffer torch.zeros((nteststeps,))
    results,        \* {"train_losses": [...], "test_losses": [...]}
    y_hat,          \* model(X) of the current training batch
    loss,           \* crit(...) of the current training batch
    X_prime_test,   \* model(X_test) of the current test batch
    loss_,          \* crit(...) of the current test batch
    grad,           \* per model: the batches whose gradients sit in .grad
    params,         \* per model: number of weight updates applied so far
    training,       \* model.training
    grad_enabled,   \* torch.is_grad_enabled()
    forward_calls,  \* number of calls model(...) so far
    step_calls,     \* number of calls opt.step() so far
    test_evals      \* number of test losses computed so far

vars03 == <<pc03, nlayers, nchannels, enc_inputdim, dec_inputdim, Xtest,
            latent_h, Xt_prime, Xt_prime_ae, latent_h_, Xtest_prime_,
            Xt_prime_lae>>

vars04 == <<pc04, inshape, num_channels, ksize, num_layers, first_x, first_y,
            output_fcn, output_attn, output_tattn>>

varsSA == <<pcSA, in_channels, out_channels, key_channels, sa_x,
            conv_Q, conv_K, conv_V, fwd>>

varsN == <<pcN, train_input, train_targets, test_input, test_targets,
           x_min, x_max, y_min, y_max, x_, y_, x_test_, y_test_>>

varsT == <<pcT, call, opt_params, n_train, n_test, max_epochs, ntrainsteps,
           nteststeps, epoch, idx, train_loss, test_loss, results, y_hat,
           loss, X_prime_test, loss_, grad, params, training, grad_enabled,
           forward_calls, step_calls, test_evals>>

vars == <<vars03, vars04, varsSA, varsN, varsT>>

(***************************************************************************)
(* Values: tensors (by shape), None, tuples, and raised exceptions.        *)
(***************************************************************************)
Tensor(shape) == [kind |-> "tensor", shape |-> shape, items |-> <<>>]

NoneValue == [kind |-> "None", shape |-> <<>>, items |-> <<>>]

TupleValue(items) == [kind |-> "tuple", shape |-> <<>>, items |-> items]

Raised(exc) == [kind |-> exc, shape |-> <<>>, items |-> <<>>]

Unset == [kind |-> "unset", shape |-> <<>>, items |-> <<>>]

IsTensor(x) == x.kind = "tensor"

IsRaised(x) ==
    x.kind \in {"RuntimeError", "TypeError", "AttributeError", "NameError",
                "AssertionError"}

\* an operation applied to the result of a statement that raised (or never ran)
Propagate(x) == IF IsRaised(x) THEN x ELSE Raised("NameError")

RECURSIVE Pow(_, _)
Pow(b, e) == IF e <= 0 THEN 1 ELSE b * Pow(b, e - 1)

RECURSIVE Prod(_)
Prod(s) == IF s = <<>> THEN 1 ELSE Head(s) * Prod(Tail(s))

Last(s) == s[Len(s)]

ButLast(s) == SubSeq(s, 1, Len(s) - 1)

(***************************************************************************)
(* torch.nn layers, as the shape functions the library documents.          *)
(***************************************************************************)
Layer(op, cin, cout, k, stride, padding, opad, key) ==
    [op |-> op, cin |-> cin, cout |-> cout, k |-> k, stride |-> stride,
     padding |-> padding, opad |-> opad, key |-> key]

Conv1d(cin, cout, k, stride, padding) ==
    Layer("Conv1d", cin, cout, k, stride, padding, 0, 0)

ConvTranspose1d(cin, cout, k, stride, padding, opad) ==
    Layer("ConvTranspose1d", cin, cout, k, stride, padding, opad, 0)

ReLU == Layer("ReLU", 0, 0, 0, 0, 0, 0, 0)

Flatten == Layer("Flatten", 0, 0, 0, 0, 0, 0, 0)

Linear(indim, outdim) == Layer("Linear", indim, outdim, 0, 0, 0, 0, 0)

\* SelfAttention(in_channels, out_channels, key_channels) of notebook 04
SelfAttention(cin, cout, key) ==
    Layer("SelfAttention", cin, cout, 0, 0, 0, 0, key)

\* the stride left out of the width formula
ConvOutWidth_IgnoresStride(w, k, stride, padding) == (w + 2 * padding - k) + 1

\* L_out = floor((L_in + 2*padding - (k - 1) - 1) / stride) + 1
ConvOutWidth(w, k, stride, padding) == ((w + 2 * padding - k) \div stride) + 1

\* the output_padding left out of the width formula
ConvTransposeOutWidth_NoOutputPadding(w, k, stride, padding, opad) ==
    (w - 1) * stride - 2 * padding + (k - 1) + 1

\* L_out = (L_in - 1)*stride - 2*padding + (k - 1) + output_padding + 1
ConvTransposeOutWidth(w, k, stride, padding, opad) ==
    (w - 1) * stride - 2 * padding + (k - 1) + opad + 1

\* a (N, C, L) or (C, L) input whose C is the layer's in_channels
ConvInputOk(l, s) ==
    /\ Len(s) \in {2, 3}
    /\ s[Len(s) - 1] = l.cin

ApplyConv1d(l, s) ==
    IF ~ConvInputOk(l, s) \/ Last(s) + 2 * l.padding < l.k
    THEN Raised("RuntimeError")
    ELSE Tensor(SubSeq(s, 1, Len(s) - 2)
                \o <<l.cout, ConvOutWidth(Last(s), l.k, l.stride, l.padding)>>)

ApplyConvTranspose1d(l, s) ==
    IF ~ConvInputOk(l, s)
       \/ ConvTransposeOutWidth(Last(s), l.k, l.stride, l.padding, l.opad) < 1
    THEN Raised("RuntimeError")
    ELSE Tensor(SubSeq(s, 1, Len(s) - 2)
                \o <<l.cout,
                     ConvTransposeOutWidth(Last(s), l.k, l.stride, l.padding, l.opad)>>)

\* torch.nn.Flatten(): start_dim = 1, end_dim = -1
ApplyFlatten(s) ==
    IF Len(s) < 2 THEN Raised("RuntimeError")
    ELSE Tensor(<<s[1], Prod(Tail(s))>>)

ApplyLinear(l, s) ==
    IF Len(s) < 1 \/ Last(s) # l.cin THEN Raised("RuntimeError")
    ELSE Tensor(ButLast(s) \o <<l.cout>>)

\* torch.transpose(x, -1, -2)
TransposeShape(s) ==
    SubSeq(s, 1, Len(s) - 2) \o <<s[Len(s)], s[Len(s) - 1]>>

\* torch.matmul of two tensors of the same rank (2 or 3): the batch axes
\* agree and the inner dimensions must match
MatMulShape(a, b) ==
    IF \/ ~IsTensor(a)
       \/ ~IsTensor(b)
    THEN (IF IsRaised(a) THEN a ELSE Propagate(b))
    ELSE IF \/ Len(a.shape) # Len(b.shape)
            \/ Len(a.shape) \notin {2, 3}
            \/ SubSeq(a.shape, 1, Len(a.shape) - 2)
                 # SubSeq(b.shape, 1, Len(b.shape) - 2)
            \/ Last(a.shape) # b.shape[Len(b.shape) - 1]
         THEN Raised("RuntimeError")
         ELSE Tensor(ButLast(a.shape) \o <<Last(b.shape)>>)

\* SelfAttention.forward on shapes: Q, K, V by 1x1 convolutions without
\* bias, K_t = transpose(K, -1, -2), A_ = matmul(Q, K_t),
\* A = softmax(A_, dim=-2), y = matmul(A, V)
SelfAttentionShapes(l, s) ==
    LET Q == ApplyConv1d(Conv1d(l.cin, l.key, 1, 1, 0), s)
        K == ApplyConv1d(Conv1d(l.cin, l.key, 1, 1, 0), s)
        V == ApplyConv1d(Conv1d(l.cin, l.cout, 1, 1, 0), s)
        K_t == IF IsTensor(K) THEN Tensor(TransposeShape(K.shape)) ELSE K
        A_ == MatMulShape(Q, K_t)
        A == A_
        y == MatMulShape(A, V)
    IN [Q |-> Q, K |-> K, V |-> V, K_t |-> K_t, A_ |-> A_, A |-> A, y |-> y]

ApplySelfAttention(l, s) == SelfAttentionShapes(l, s).y

ApplyLayer(l, x) ==
    IF ~IsTensor(x) THEN (IF IsRaised(x) THEN x ELSE Raised("TypeError"))
    ELSE CASE l.op = "Conv1d" -> ApplyConv1d(l, x.shape)
           [] l.op = "ConvTranspose1d" -> ApplyConvTranspose1d(l, x.shape)
           [] l.op = "ReLU" -> x
           [] l.op = "Flatten" -> ApplyFlatten(x.shape)
           [] l.op = "Linear" -> ApplyLinear(l, x.shape)
           [] l.op = "SelfAttention" -> ApplySelfAttention(l, x.shape)

\* torch.nn.Sequential.forward: the layers in the order they were appended
RECURSIVE Sequential(_, _)
Sequential(layers, x) ==
    IF layers = <<>> THEN x
    ELSE Sequential(Tail(layers), ApplyLayer(Head(layers), x))

\* torch.unsqueeze(x, dim=1) when len(x.shape) == 2
Unsqueeze2d(x) ==
    IF IsTensor(x) /\ Len(x.shape) = 2
    THEN Tensor(<<x.shape[1], 1, x.shape[2]>>)
    ELSE x

\* Tensor.squeeze(1): drops axis 1 when its size is 1
Squeeze1(x) ==
    IF ~IsTensor(x) THEN Propagate(x)
    ELSE IF Len(x.shape) >= 2 /\ x.shape[2] = 1
         THEN Tensor(<<x.shape[1]>> \o SubSeq(x.shape, 3, Len(x.shape)))
         ELSE x

(***************************************************************************)
(* Notebook 03: MyEncoder, MyDecoder, MyAutoencoder.                       *)
(***************************************************************************)
\* the loop "for i in range(nlayers - 1)" appends a convolution and a ReLU
MyEncoderLayers(n, c) ==
    [j \in 1 .. 2 * (n - 1) |->
        IF j % 2 = 1
        THEN Conv1d(IF (j - 1) \div 2 = 0 THEN 1 ELSE c, c, 5, 2, 2)
        ELSE ReLU]
    \o <<Conv1d(c, 1, 3, 1, 1), Flatten>>

MyEncoderForward(n, c, x) == Sequential(MyEncoderLayers(n, c), Unsqueeze2d(x))

MyDecoderLayers(n, c) ==
    [j \in 1 .. 2 * (n - 1) |->
        IF j % 2 = 1
        THEN ConvTranspose1d(IF (j - 1) \div 2 = 0 THEN 1 ELSE c, c, 5, 2, 2, 1)
        ELSE ReLU]
    \o <<Conv1d(c, 1, 3, 1, 1)>>

MyDecoderForward(n, c, x) == Sequential(MyDecoderLayers(n, c), Unsqueeze2d(x))

MyAutoencoderForward(n, c, x) == MyDecoderForward(n, c, MyEncoderForward(n, c, x))

(***************************************************************************)
(* Notebook 03, solution 03.1 and 03.2: the all-linear variants.           *)
(***************************************************************************)
\* halving that rounds up instead of down
RECURSIVE LinearEncoderDims_RoundsUp(_, _)
LinearEncoderDims_RoundsUp(inputdim, i) ==
    IF i = 0 THEN [indim |-> inputdim, outdim |-> (inputdim + 1) \div 2]
    ELSE LET prev == LinearEncoderDims_RoundsUp(inputdim, i - 1)
         IN [indim |-> prev.outdim, outdim |-> (prev.outdim + 1) \div 2]

\* indim and outdim before iteration i of "for i in range(nlayers - 1)"
RECURSIVE LinearEncoderDims(_, _)
LinearEncoderDims(inputdim, i) ==
    IF i = 0 THEN [indim |-> inputdim, outdim |-> inputdim \div 2]
    ELSE LET prev == LinearEncoderDims(inputdim, i - 1)
         IN [indim |-> prev.outdim, outdim |-> prev.outdim \div 2]

\* the ReLU is appended after every Linear but the last one
LinearStack(n, dims) ==
    LET withRelu == [j \in 1 .. 2 * (n - 1) |->
                        IF j % 2 = 1
                        THEN Linear(dims[(j - 1) \div 2].indim,
                                    dims[(j - 1) \div 2].outdim)
                        ELSE ReLU]
    IN IF n - 1 >= 1 THEN ButLast(withRelu) ELSE <<>>

MyLinearEncoderLayers(n, inputdim) ==
    LinearStack(n, [i \in 0 .. n - 2 |-> LinearEncoderDims(inputdim, i)])

MyLinearEncoderForward(n, inputdim, x) ==
    Sequential(MyLinearEncoderLayers(n, inputdim), x)

RECURSIVE LinearDecoderDims(_, _)
LinearDecoderDims(inputdim, i) ==
    IF i = 0 THEN [indim |-> inputdim, outdim |-> inputdim * 2]
    ELSE LET prev == LinearDecoderDims(inputdim, i - 1)
         IN [indim |-> prev.outdim, outdim |-> prev.outdim * 2]

MyLinearDecoderLayers(n, inputdim) ==
    LinearStack(n, [i \in 0 .. n - 2 |-> LinearDecoderDims(inputdim, i)])

MyLinearDecoderForward(n, inputdim, x) ==
    Sequential(MyLinearDecoderLayers(n, inputdim), x)

\* MyLinearAutoencoder.__init__ passes (nlayers, nchannels) only: both
\* inputdim arguments keep their defaults
MyLinearAutoencoderForward(n, c, x) ==
    MyLinearDecoderForward(n, DecInputDim,
                           MyLinearEncoderForward(n, EncInputDim, x))

(***************************************************************************)
(* Notebook 03 as a script: one action per cell.                           *)
(***************************************************************************)
Widths == (1 .. MaxWidth) \cup {EncInputDim}

LatentWidths == (0 .. MaxWidth) \cup {DecInputDim}

Batches == (1 .. MaxBatch) \cup {TestBatch}

LayerCounts == 1 .. MaxLayers

ChannelCounts == (1 .. MaxChannels) \cup {DefaultNChannels}

Init03 ==
    /\ pc03 = "enc"
    /\ nlayers \in LayerCounts
    /\ nchannels \in ChannelCounts
    /\ enc_inputdim \in Widths
    /\ dec_inputdim \in LatentWidths
    /\ Xtest \in {Tensor(<<b, w>>) : b \in Batches, w \in Widths}
    /\ latent_h = Unset
    /\ Xt_prime = Unset
    /\ Xt_prime_ae = Unset
    /\ latent_h_ = Unset
    /\ Xtest_prime_ = Unset
    /\ Xt_prime_lae = Unset

Idle03 ==
    /\ pc03 = "off"
    /\ nlayers = DefaultNLayers
    /\ nchannels = DefaultNChannels
    /\ enc_inputdim = EncInputDim
    /\ dec_inputdim = DecInputDim
    /\ Xtest = Unset
    /\ latent_h = Unset
    /\ Xt_prime = Unset
    /\ Xt_prime_ae = Unset
    /\ latent_h_ = Unset
    /\ Xtest_prime_ = Unset
    /\ Xt_prime_lae = Unset

\* enc = MyEncoder(...); latent_h = enc(Xtest)
EncoderCell ==
    /\ pc03 = "enc"
    /\ latent_h' = MyEncoderForward(nlayers, nchannels, Xtest)
    /\ pc03' = "dec"
    /\ UNCHANGED <<nlayers, nchannels, enc_inputdim, dec_inputdim, Xtest,
                   Xt_prime, Xt_prime_ae, latent_h_, Xtest_prime_, Xt_prime_lae>>
    /\ UNCHANGED <<vars04, varsSA, varsN, varsT>>

\* dec = MyDecoder(...); Xt_prime = dec(latent_h)
DecoderCell ==
    /\ pc03 = "dec"
    /\ Xt_prime' = MyDecoderForward(nlayers, nchannels, latent_h)
    /\ pc03' = "ae"
    /\ UNCHANGED <<nlayers, nchannels, enc_inputdim, dec_inputdim, Xtest,
                   latent_h, Xt_prime_ae, latent_h_, Xtest_prime_, Xt_prime_lae>>
    /\ UNCHANGED <<vars04, varsSA, varsN, varsT>>

\* model = MyAutoencoder(...); Xt_prime = model(Xtest)
AutoencoderCell ==
    /\ pc03 = "ae"
    /\ Xt_prime_ae' = MyAutoencoderForward(nlayers, nchannels, Xtest)
    /\ pc03' = "lin"
    /\ UNCHANGED <<nlayers, nchannels, enc_inputdim, dec_inputdim, Xtest,
                   latent_h, Xt_prime, latent_h_, Xtest_prime_, Xt_prime_lae>>
    /\ UNCHANGED <<vars04, varsSA, varsN, varsT>>

\* lenc = MyLinearEncoder(...); ldec = MyLinearDecoder(...)
\* latent_h_ = lenc(Xtest_); Xtest_prime_ = ldec(latent_h_)
LinearCell ==
    /\ pc03 = "lin"
    /\ latent_h_' = MyLinearEncoderForward(nlayers, enc_inputdim, Xtest)
    /\ Xtest_prime_' = MyLinearDecoderForward(nlayers, dec_inputdim, latent_h_')
    /\ pc03' = "linae"
    /\ UNCHANGED <<nlayers, nchannels, enc_inputdim, dec_inputdim, Xtest,
                   latent_h, Xt_prime, Xt_prime_ae, Xt_prime_lae>>
    /\ UNCHANGED <<vars04, varsSA, varsN, varsT>>

\* lmodel = MyLinearAutoencoder(...); lmodel(X) as train_autoencoder calls it
LinearAutoencoderCell ==
    /\ pc03 = "linae"
    /\ Xt_prime_lae' = MyLinearAutoencoderForward(nlayers, nchannels, Xtest)
    /\ pc03' = "done"
    /\ UNCHANGED <<nlayers, nchannels, enc_inputdim, dec_inputdim, Xtest,
                   latent_h, Xt_prime, Xt_prime_ae, latent_h_, Xtest_prime_>>
    /\ UNCHANGED <<vars04, varsSA, varsN, varsT>>

Next03 ==
    \/ EncoderCell
    \/ DecoderCell
    \/ AutoencoderCell
    \/ LinearCell
    \/ LinearAutoencoderCell

(***************************************************************************)
(* Notebook 04: RegressionFCN, CustomAttn, CustomTorchAttn on shapes.      *)
(***************************************************************************)
\* "same" padding left out: the convolutions are built with padding 0
RegressionFCNLayers_NoPadding(shape, nch, ks, nl) ==
    [j \in 1 .. 2 * nl |->
        IF j % 2 = 1
        THEN Conv1d(IF j = 1 THEN shape[1] ELSE nch, nch, ks, 1, 0)
        ELSE ReLU]
    \o <<Conv1d(nch, shape[1], 1, 1, 0)>>

\* num_layers times a convolution with padding = ksize // 2 and a ReLU,
\* then a 1x1 convolution back to inshape[0] channels
RegressionFCNLayers(shape, nch, ks, nl) ==
    [j \in 1 .. 2 * nl |->
        IF j % 2 = 1
        THEN Conv1d(IF j = 1 THEN shape[1] ELSE nch, nch, ks, 1, ks \div 2)
        ELSE ReLU]
    \o <<Conv1d(nch, shape[1], 1, 1, 0)>>

RegressionFCNForward(shape, nch, ks, nl, x) ==
    Sequential(RegressionFCNLayers(shape, nch, ks, nl), x)

\* the attention layer built with a key width of its own
CustomAttnLayers_NarrowKeys(shape, nch, ks) ==
    <<Conv1d(shape[1], nch, ks, 1, ks \div 2),
      ReLU,
      SelfAttention(nch, nch, nch + 1),
      ReLU,
      Conv1d(nch, nch, ks, 1, ks \div 2),
      Conv1d(nch, shape[1], 1, 1, 0)>>

CustomAttnLayers(shape, nch, ks) ==
    <<Conv1d(shape[1], nch, ks, 1, ks \div 2),
      ReLU,
      SelfAttention(nch, nch, nch),
      ReLU,
      Conv1d(nch, nch, ks, 1, ks \div 2),
      Conv1d(nch, shape[1], 1, 1, 0)>>

CustomAttnForward(shape, nch, ks, x) ==
    Sequential(CustomAttnLayers(shape, nch, ks), x)

CustomTorchAttnHeadLayers(shape, nch, ks) ==
    <<Conv1d(shape[1], nch, ks, 1, ks \div 2),
      ReLU,
      Conv1d(nch, nch, ks, 1, ks \div 2),
      ReLU>>

CustomTorchAttnTailLayers(shape, nch, ks) ==
    <<Conv1d(nch, nch, ks, 1, ks \div 2),
      ReLU,
      Conv1d(nch, shape[1], 1, 1, 0)>>

\* torch.nn.MultiheadAttention(embed_dim, num_heads=1, kdim=embed_dim,
\* vdim=embed_dim) called as attn_layer(Q, K, V, need_weights=False) with
\* batch_first left False: the last axis of the query is the embedding,
\* and the call returns the pair (attn_output, None)
MultiheadAttention(embed_dim, query, key, value) ==
    IF ~IsTensor(query) THEN Propagate(query)
    ELSE IF ~IsTensor(key) THEN Propagate(key)
    ELSE IF ~IsTensor(value) THEN Propagate(value)
    ELSE IF \/ Len(query.shape) \notin {2, 3}
            \/ Last(query.shape) # embed_dim
            \/ Last(key.shape) # embed_dim
            \/ Last(value.shape) # embed_dim
            \/ ButLast(key.shape) # ButLast(value.shape)
            \/ Len(key.shape) # Len(query.shape)
            \/ (Len(query.shape) = 3 /\ key.shape[2] # query.shape[2])
         THEN Raised("AssertionError")
         ELSE TupleValue(<<Tensor(query.shape), NoneValue>>)

\* print(">>", [ it.shape for it in embedded ]): every item needs a shape
ItemShapes(embedded) ==
    IF embedded.kind # "tuple" THEN Propagate(embedded)
    ELSE IF \E i \in 1 .. Len(embedded.items) : ~IsTensor(embedded.items[i])
         THEN Raised("AttributeError")
         ELSE NoneValue

CustomTorchAttnForward(shape, nch, ks, x) ==
    LET headQ == Sequential(CustomTorchAttnHeadLayers(shape, nch, ks), x)
        headK == Sequential(CustomTorchAttnHeadLayers(shape, nch, ks), x)
        headV == Sequential(CustomTorchAttnHeadLayers(shape, nch, ks), x)
        embedded == MultiheadAttention(nch, headQ, headK, headV)
        printed == ItemShapes(embedded)
    IN IF IsRaised(embedded) THEN embedded
       ELSE IF IsRaised(printed) THEN printed
       ELSE Sequential(CustomTorchAttnTailLayers(shape, nch, ks), embedded)

(***************************************************************************)
(* Notebook 04 as a script: one action per cell that tries a model.        *)
(***************************************************************************)
SeqLengths == (1 .. MaxSeq) \cup {SeqLength}

InChannelCounts == 1 .. MaxInChannels

Ksizes == (1 .. MaxKsize) \cup {DefaultKsize}

NumChannelCounts == (1 .. MaxChannels) \cup {DefaultNumChannels}

Batches04 == (1 .. MaxBatch) \cup {BatchSize}

Init04 ==
    /\ pc04 = "fcn"
    /\ inshape \in {<<c, t>> : c \in InChannelCounts, t \in SeqLengths}
    /\ num_channels \in NumChannelCounts
    /\ ksize \in Ksizes
    /\ num_layers \in LayerCounts
    /\ first_x \in {Tensor(<<b>> \o inshape) : b \in Batches04}
    /\ first_y = first_x
    /\ output_fcn = Unset
    /\ output_attn = Unset
    /\ output_tattn = Unset

Idle04 ==
    /\ pc04 = "off"
    /\ inshape = <<1, SeqLength>>
    /\ num_channels = DefaultNumChannels
    /\ ksize = DefaultKsize
    /\ num_layers = DefaultNumLayers
    /\ first_x = Unset
    /\ first_y = Unset
    /\ output_fcn = Unset
    /\ output_attn = Unset
    /\ output_tattn = Unset

\* plainfcn = RegressionFCN(...); output = plainfcn(first_x)
RegressionFCNCell ==
    /\ pc04 = "fcn"
    /\ output_fcn' = RegressionFCNForward(inshape, num_channels, ksize,
                                          num_layers, first_x)
    /\ pc04' = "attn"
    /\ UNCHANGED <<inshape, num_channels, ksize, num_layers, first_x, first_y,
                   output_attn, output_tattn>>
    /\ UNCHANGED <<vars03, varsSA, varsN, varsT>>

\* attmodel = CustomAttn(...); output = attmodel(first_x)
CustomAttnCell ==
    /\ pc04 = "attn"
    /\ output_attn' = CustomAttnForward(inshape, num_channels, ksize, first_x)
    /\ pc04' = "tattn"
    /\ UNCHANGED <<inshape, num_channels, ksize, num_layers, first_x, first_y,
                   output_fcn, output_tattn>>
    /\ UNCHANGED <<vars03, varsSA, varsN, varsT>>

\* tattmodel = CustomTorchAttn(...); output = tattmodel(first_x)
CustomTorchAttnCell ==
    /\ pc04 = "tattn"
    /\ output_tattn' = CustomTorchAttnForward(inshape, num_channels, ksize,
                                              first_x)
    /\ pc04' = "done"
    /\ UNCHANGED <<inshape, num_channels, ksize, num_layers, first_x, first_y,
                   output_fcn, output_attn>>
    /\ UNCHANGED <<vars03, varsSA, varsN, varsT>>

Next04 ==
    \/ RegressionFCNCell
    \/ CustomAttnCell
    \/ CustomTorchAttnCell

IdleSA ==
    /\ pcSA = "off"
    /\ in_channels = 1
    /\ out_channels = 1
    /\ key_channels = 1
    /\ sa_x = <<>>
    /\ conv_Q = <<>>
    /\ conv_K = <<>>
    /\ conv_V = <<>>
    /\ fwd = Unset


(***************************************************************************)
(* Notebook 04: SelfAttention.forward on the entries of one batch element  *)
(* (torch.matmul, torch.transpose and softmax over dim -1 or -2 treat the  *)
(* elements of a batch independently).  A matrix is a tensor whose items   *)
(* are its rows.  The entries of A and y are fractions <<n, d>>, d > 0, in *)
(* lowest terms, and exp is taken to the base 2: an equation between sums  *)
(* of products of exp at integer arguments that holds for base e holds for *)
(* every base (e is transcendental), so whatever fails for base 2 fails    *)
(* for base e.                                                             *)
(***************************************************************************)
Matrix(rows) == [kind |-> "tensor", shape |-> <<Len(rows), Len(rows[1])>>,
                 items |-> rows]

RECURSIVE SumSeq(_)
SumSeq(s) == IF s = <<>> THEN 0 ELSE Head(s) + SumSeq(Tail(s))

Abs(n) == IF n < 0 THEN -n ELSE n

RECURSIVE GCD(_, _)
GCD(a, b) == IF b = 0 THEN a ELSE GCD(b, a % b)

Frac(n, d) ==
    LET g == GCD(Abs(n), d)
    IN <<n \div g, d \div g>>

FracAdd(p, q) == Frac(p[1] * q[2] + q[1] * p[2], p[2] * q[2])

FracMul(p, q) == Frac(p[1] * q[1], p[2] * q[2])

FracDiv(p, q) == Frac(p[1] * q[2], p[2] * q[1])

RECURSIVE FracSum(_)
FracSum(s) == IF s = <<>> THEN <<0, 1>> ELSE FracAdd(Head(s), FracSum(Tail(s)))

\* exp at an integer argument
Exp(a) == IF a >= 0 THEN <<Pow(2, a), 1>> ELSE <<1, Pow(2, -a)>>

\* torch.nn.Conv1d(in, out, kernel_size=1, bias=False): out[o][t] is the
\* sum over the input channels c of weight[o][c] * x[c][t]
Conv1x1(weight, x) ==
    Matrix([o \in 1 .. Len(weight) |->
              [t \in 1 .. Len(x[1]) |->
                 SumSeq([c \in 1 .. Len(x) |-> weight[o][c] * x[c][t]])]])

\* torch.transpose(m, -1, -2)
Transpose(m) ==
    Matrix([j \in 1 .. m.shape[2] |-> [i \in 1 .. m.shape[1] |-> m.items[i][j]]])

\* torch.matmul of two integer matrices
MatMul(a, b) ==
    IF ~IsTensor(a) THEN Propagate(a)
    ELSE IF ~IsTensor(b) THEN Propagate(b)
    ELSE IF a.shape[2] # b.shape[1] THEN Raised("RuntimeError")
    ELSE Matrix([i \in 1 .. a.shape[1] |->
                   [j \in 1 .. b.shape[2] |->
                      SumSeq([k \in 1 .. a.shape[2] |->
                                a.items[i][k] * b.items[k][j]])]])

\* torch.matmul of a matrix of fractions and an integer matrix
MatMulFrac(a, b) ==
    IF ~IsTensor(a) THEN Propagate(a)
    ELSE IF ~IsTensor(b) THEN Propagate(b)
    ELSE IF a.shape[2] # b.shape[1] THEN Raised("RuntimeError")
    ELSE Matrix([i \in 1 .. a.shape[1] |->
                   [j \in 1 .. b.shape[2] |->
                      FracSum([k \in 1 .. a.shape[2] |->
                                 FracMul(a.items[i][k], <<b.items[k][j], 1>>)])]])

\* torch.nn.functional.softmax(m, dim): the entries along axis dim sum to 1;
\* dim = -1 runs along a row, dim = -2 down a column
Softmax(m, dim) ==
    IF ~IsTensor(m) THEN Propagate(m)
    ELSE Matrix([i \in 1 .. m.shape[1] |->
                   [j \in 1 .. m.shape[2] |->
                      FracDiv(Exp(m.items[i][j]),
                              IF dim = -1
                              THEN FracSum([k \in 1 .. m.shape[2] |->
                                              Exp(m.items[i][k])])
                              ELSE FracSum([k \in 1 .. m.shape[1] |->
                                              Exp(m.items[k][j])]))]])

\* the scores divided by the number of key channels
AttentionScores_Scaled(Q, K_t) ==
    LET raw == MatMul(Q, K_t)
    IN IF ~IsTensor(raw) THEN raw
       ELSE Matrix([i \in 1 .. raw.shape[1] |->
                      [j \in 1 .. raw.shape[2] |->
                         raw.items[i][j] \div Q.shape[1]]])

\* A_ = torch.matmul(Q, K_t)
AttentionScores(Q, K_t) == MatMul(Q, K_t)

\* SelfAttention.forward
SelfAttentionForward(wQ, wK, wV, x) ==
    LET Q == Conv1x1(wQ, x)
        K == Conv1x1(wK, x)
        V == Conv1x1(wV, x)
        K_t == Transpose(K)
        A_ == AttentionScores(Q, K_t)
        A == Softmax(A_, -2)
        y == MatMulFrac(A, V)
    IN [Q |-> Q, K |-> K, V |-> V, K_t |-> K_t, A_ |-> A_, A |-> A, y |-> y]

\* the weights a convolution may hold: row r is plus or minus the unit
\* vector of input channel ((r - 1 + offset) mod cols) + 1
Kernels(rows, cols) ==
    {[r \in 1 .. rows |->
        [c \in 1 .. cols |->
            IF c = ((r - 1 + offset) % cols) + 1
            THEN (CASE sign = "pos" -> 1
                    [] sign = "neg" -> -1
                    [] sign = "alt" -> IF r % 2 = 1 THEN 1 ELSE -1)
            ELSE 0]] :
     offset \in 0 .. cols - 1, sign \in {"pos", "neg", "alt"}}

InitSA ==
    /\ pcSA = "call"
    /\ in_channels \in 1 .. MaxAttnIn
    /\ out_channels \in 1 .. MaxAttnChannels
    /\ key_channels \in 1 .. MaxAttnChannels
    /\ \E T \in 1 .. MaxAttnSeq :
          sa_x \in [1 .. in_channels -> [1 .. T -> {0, 1}]]
    /\ conv_Q \in Kernels(key_channels, in_channels)
    /\ conv_K \in Kernels(key_channels, in_channels)
    /\ conv_V \in Kernels(out_channels, in_channels)
    /\ fwd = Unset

\* y = SelfAttention(in_channels, out_channels, key_channels)(x)
SelfAttentionCall ==
    /\ pcSA = "call"
    /\ fwd' = SelfAttentionForward(conv_Q, conv_K, conv_V, sa_x)
    /\ pcSA' = IF IsTensor(fwd'.y) THEN "returned" ELSE "raised"
    /\ UNCHANGED <<in_channels, out_channels, key_channels, sa_x,
                   conv_Q, conv_K, conv_V>>
    /\ UNCHANGED <<vars03, vars04, varsN, varsT>>

NextSA == SelfAttentionCall

(***************************************************************************)
(* Claims about notebook 03.                                               *)
(***************************************************************************)
Ran03(cell) ==
    LET order == <<"off", "enc", "dec", "ae", "lin", "linae", "done">>
        pos(c) == CHOOSE i \in 1 .. Len(order) : order[i] = c
    IN pos(pc03) > pos(cell)

Defaults03 == nlayers = DefaultNLayers /\ nchannels = DefaultNChannels

BatchOf(x) == x.shape[1]

WidthOf(x) == Last(x.shape)

CeilDiv(a, b) == (a + b - 1) \div b

\* C1 as stated: with the default constructor arguments, for every batch
\* size and every signal width L >= 1 both dec(enc(Xtest)) and model(Xtest)
\* have, after squeeze(1), the shape of Xtest.
C1_ShapeKeptForEveryWidth ==
    (Defaults03 /\ Ran03("ae"))
        => /\ Squeeze1(Xt_prime) = Xtest
           /\ Squeeze1(Xt_prime_ae) = Xtest

\* C1 amended: with the default constructor arguments (nlayers = 3) the
\* squeezed output of dec(enc(Xtest)) and of model(Xtest) has shape
\* (B, 4 * ceil(L / 4)) for an input of shape (B, L); it equals the input
\* shape exactly when L is a multiple of 4.
C1_ShapeKeptForWidthsDivisibleBy4 ==
    (Defaults03 /\ Ran03("ae"))
        => /\ Squeeze1(Xt_prime) = Squeeze1(Xt_prime_ae)
           /\ Squeeze1(Xt_prime_ae)
                = Tensor(<<BatchOf(Xtest), 4 * CeilDiv(WidthOf(Xtest), 4)>>)
           /\ (Squeeze1(Xt_prime_ae) = Xtest) <=> (WidthOf(Xtest) % 4 = 0)

C1_Witness ==
    /\ Defaults03
    /\ pc03 = "done"
    /\ Xtest = Tensor(<<TestBatch, EncInputDim>>)
    /\ Squeeze1(Xt_prime_ae) = Xtest
    /\ Squeeze1(Xt_prime) = Xtest

\* C2: for MyEncoder with nlayers >= 2 and an input of shape (B, L) with
\* L >= 2 the last dimension of the latent is strictly smaller than L; with
\* nlayers = 3 and L = 40 it is 10.
C2_EncoderCompresses ==
    Ran03("enc")
        => /\ (nlayers >= 2 /\ WidthOf(Xtest) >= 2)
                => /\ IsTensor(latent_h)
                   /\ WidthOf(latent_h) < WidthOf(Xtest)
           /\ (nlayers = DefaultNLayers /\ WidthOf(Xtest) = EncInputDim)
                => latent_h = Tensor(<<BatchOf(Xtest), DecInputDim>>)

C2_Witness ==
    /\ pc03 = "dec"
    /\ Defaults03
    /\ Xtest = Tensor(<<TestBatch, EncInputDim>>)
    /\ latent_h = Tensor(<<TestBatch, DecInputDim>>)

\* C3: MyLinearEncoder(nlayers = n, inputdim = D) maps (B, D) to
\* (B, D // 2^(n-1)), MyLinearDecoder(nlayers = n, inputdim = d) maps (B, d)
\* to (B, d * 2^(n-1)); with n = 3, D = 40, d = 10 an (8, 40) batch becomes
\* (8, 10) and is decoded back to (8, 40).
C3_LinearWidths ==
    Ran03("lin")
        => /\ (WidthOf(Xtest) = enc_inputdim)
                => latent_h_ = Tensor(<<BatchOf(Xtest),
                                       enc_inputdim \div Pow(2, nlayers - 1)>>)
           /\ (IsTensor(latent_h_) /\ WidthOf(latent_h_) = dec_inputdim)
                => Xtest_prime_ = Tensor(<<BatchOf(Xtest),
                                          dec_inputdim * Pow(2, nlayers - 1)>>)
           /\ (/\ nlayers = DefaultNLayers
               /\ enc_inputdim = EncInputDim
               /\ dec_inputdim = DecInputDim
               /\ Xtest = Tensor(<<TestBatch, EncInputDim>>))
                => /\ latent_h_ = Tensor(<<TestBatch, DecInputDim>>)
                   /\ Xtest_prime_ = Xtest

C3_Witness ==
    /\ Ran03("lin")
    /\ nlayers = DefaultNLayers
    /\ enc_inputdim = EncInputDim
    /\ dec_inputdim = DecInputDim
    /\ Xtest = Tensor(<<TestBatch, EncInputDim>>)
    /\ latent_h_ = Tensor(<<TestBatch, DecInputDim>>)
    /\ Xtest_prime_ = Xtest

\* C4: for every nlayers >= 1, MyLinearAutoencoder(nlayers, nchannels)
\* applied to an input of shape (B, 40) completes its forward pass and
\* returns a tensor of shape (B, 40).
C4_LinearAutoencoderUsableForEveryNLayers ==
    (pc03 = "done" /\ WidthOf(Xtest) = EncInputDim)
        => Xt_prime_lae = Tensor(<<BatchOf(Xtest), EncInputDim>>)


(***************************************************************************)
(* Claims about the models of notebook 04, on shapes.                      *)
(***************************************************************************)
Ran04(cell) ==
    LET order == <<"off", "fcn", "attn", "tattn", "done">>
        pos(c) == CHOOSE i \in 1 .. Len(order) : order[i] = c
    IN pos(pc04) > pos(cell)

Defaults04 ==
    /\ inshape = <<1, SeqLength>>
    /\ num_channels = DefaultNumChannels
    /\ ksize = DefaultKsize
    /\ num_layers = DefaultNumLayers
    /\ first_x = Tensor(<<BatchSize, 1, SeqLength>>)

\* C5: for every sequence length T >= 1, batch size B >= 1 and
\* num_layers >= 1, RegressionFCN(inshape = (C, T)) with ksize = 5 or any
\* other odd ksize maps an input of shape (B, C, T) to an output of the same
\* shape, which is the shape of the target.
C5_FCNKeepsShape ==
    (Ran04("fcn") /\ ksize % 2 = 1)
        => /\ output_fcn = Tensor(<<BatchOf(first_x)>> \o inshape)
           /\ output_fcn = first_x
           /\ output_fcn.shape = first_y.shape

C5_Witness ==
    /\ Ran04("fcn")
    /\ Defaults04
    /\ output_fcn = Tensor(<<BatchSize, 1, SeqLength>>)

\* C6: CustomAttn maps every input of shape (B, C, T) with C = inshape[0]
\* to an output of shape (B, C, T), for every batch size, sequence length
\* and num_channels >= 1, with odd ksize.
C6_CustomAttnKeepsShape ==
    (Ran04("attn") /\ ksize % 2 = 1)
        => /\ output_attn = Tensor(<<BatchOf(first_x)>> \o inshape)
           /\ output_attn.shape = first_y.shape

C6_Witness ==
    /\ Ran04("attn")
    /\ Defaults04
    /\ output_attn = Tensor(<<BatchSize, 1, SeqLength>>)

\* C7: CustomTorchAttn.forward completes without error and returns a tensor
\* whose shape equals the shape of the input and of the target, so that the
\* assertion output.shape == first_y.shape after tattmodel(first_x) holds.
C7_CustomTorchAttnForwardCompletes ==
    (Ran04("tattn") /\ ksize % 2 = 1)
        => /\ IsTensor(output_tattn)
           /\ output_tattn.shape = first_y.shape

(***************************************************************************)
(* Claims about SelfAttention.forward, on the entries.                     *)
(***************************************************************************)
Returned == pcSA = "returned"

SeqLen == Len(sa_x[1])

\* the dot product of two rows of equal length
DotRows(a, b) == SumSeq([t \in 1 .. Len(a) |-> a[t] * b[t]])

\* C8 as stated: the pre-softmax score is the matrix product of Q and K^T
\* divided by sqrt(key_channels): its square times key_channels is the
\* square of the raw product, and it has the sign of the raw product.
C8_ScoresScaledByKeyDimension ==
    Returned
        => /\ IsTensor(fwd.A_)
           /\ \A i \in 1 .. fwd.A_.shape[1], j \in 1 .. fwd.A_.shape[2] :
                LET raw == DotRows(fwd.Q.items[i], fwd.K.items[j])
                    score == fwd.A_.items[i][j]
                IN /\ score * score * key_channels = raw * raw
                   /\ (score >= 0) <=> (raw >= 0)

\* C8 amended: the score is not scaled: the softmax is applied to the raw
\* matrix product of Q and K^T, whose entry (i, j) is the sum over the last
\* axis of Q[i] * K[j], whatever key_channels is.
C8_ScoresAreTheRawProduct ==
    Returned
        => /\ IsTensor(fwd.A_)
           /\ fwd.A_.shape = <<key_channels, key_channels>>
           /\ \A i \in 1 .. key_channels, j \in 1 .. key_channels :
                fwd.A_.items[i][j] = DotRows(fwd.Q.items[i], fwd.K.items[j])
           /\ fwd.A = Softmax(Matrix([i \in 1 .. key_channels |->
                                        [j \in 1 .. key_channels |->
                                           DotRows(fwd.Q.items[i],
                                                   fwd.K.items[j])]]), -2)

C8_Witness ==
    /\ Returned
    /\ key_channels >= 2
    /\ \E i \in 1 .. key_channels, j \in 1 .. key_channels :
          /\ fwd.A_.items[i][j] # 0
          /\ fwd.A_.items[i][j] = DotRows(fwd.Q.items[i], fwd.K.items[j])

\* C9: the softmax is row-wise: in the attention matrix A every entry is
\* non-negative and every row (summed over the last index) sums to 1, so
\* that each row of y = A*V is a convex combination of the rows of V.
C9_SoftmaxIsRowWise ==
    Returned
        => /\ IsTensor(fwd.A)
           /\ \A i \in 1 .. fwd.A.shape[1] :
                /\ FracSum(fwd.A.items[i]) = <<1, 1>>
                /\ \A j \in 1 .. fwd.A.shape[2] : fwd.A.items[i][j][1] >= 0

\* C10: the score matrix A_ has one row and one column per sequence
\* position, its entry (i, j) is the dot product over the key channels of
\* the query at position i and the key at position j, and the output at
\* position i is the A-weighted combination of the values at all
\* positions j.
C10_ScoresBetweenPositions ==
    Returned
        => /\ IsTensor(fwd.A_)
           /\ fwd.A_.shape = <<SeqLen, SeqLen>>
           /\ \A i \in 1 .. SeqLen, j \in 1 .. SeqLen :
                fwd.A_.items[i][j]
                  = SumSeq([c \in 1 .. key_channels |->
                              fwd.Q.items[c][i] * fwd.K.items[c][j]])
           /\ IsTensor(fwd.y)
           /\ fwd.y.shape = <<out_channels, SeqLen>>
           /\ \A c \in 1 .. out_channels, i \in 1 .. SeqLen :
                fwd.y.items[c][i]
                  = FracSum([j \in 1 .. SeqLen |->
                               FracMul(fwd.A.items[i][j],
                                       <<fwd.V.items[c][j], 1>>)])

(***************************************************************************)
(* Notebook 04: the cell that normalises the data.  The arrays are         *)
(* modelled by their entries, taken from a few integers, and the quotients *)
(* are exact fractions <<n, d>> in lowest terms; a division by zero gives  *)
(* what floating point gives: <<0, 0>> (nan), <<1, 0>> (inf) or <<-1, 0>>  *)
(* (-inf).                                                                 *)
(***************************************************************************)
DataValues == {-1, 0, 2}

\* the arrays of n entries
Arrays(n) == [1 .. n -> DataValues]

\* a.min()
ArrayMin(a) == CHOOSE v \in {a[i] : i \in DOMAIN a} :
                   \A i \in DOMAIN a : v <= a[i]

\* a.max()
ArrayMax(a) == CHOOSE v \in {a[i] : i \in DOMAIN a} :
                   \A i \in DOMAIN a : v >= a[i]

\* n / d
Divide(n, d) ==
    IF d > 0 THEN Frac(n, d)
    ELSE IF d < 0 THEN Frac(-n, -d)
    ELSE IF n > 0 THEN <<1, 0>>
    ELSE IF n < 0 THEN <<-1, 0>>
    ELSE <<0, 0>>

Normalise_ByMax(a, lo, hi) ==
    [i \in DOMAIN a |-> Divide(a[i] - lo, hi)]

\* (a - lo) / (hi - lo)
Normalise(a, lo, hi) ==
    [i \in DOMAIN a |-> Divide(a[i] - lo, hi - lo)]

IdleN ==
    /\ pcN = "off"
    /\ train_input = <<>>
    /\ train_targets = <<>>
    /\ test_input = <<>>
    /\ test_targets = <<>>
    /\ x_min = 0
    /\ x_max = 0
    /\ y_min = 0
    /\ y_max = 0
    /\ x_ = <<>>
    /\ y_ = <<>>
    /\ x_test_ = <<>>
    /\ y_test_ = <<>>

\* the data of generate_sequences, before the normalisation cell
InitNorm ==
    /\ pcN = "cell"
    /\ train_input \in Arrays(MaxTrainLen)
    /\ train_targets \in Arrays(MaxTrainLen)
    /\ test_input \in Arrays(MaxTestLen)
    /\ test_targets \in Arrays(MaxTestLen)
    /\ x_min = 0
    /\ x_max = 0
    /\ y_min = 0
    /\ y_max = 0
    /\ x_ = <<>>
    /\ y_ = <<>>
    /\ x_test_ = <<>>
    /\ y_test_ = <<>>

NormaliseCell_TestStatistics ==
    /\ pcN = "cell"
    /\ x_min' = ArrayMin(train_input)
    /\ x_max' = ArrayMax(train_input)
    /\ x_' = Normalise(train_input, x_min', x_max')
    /\ y_min' = ArrayMin(train_targets)
    /\ y_max' = ArrayMax(train_targets)
    /\ y_' = Normalise(train_targets, y_min', y_max')
    /\ x_test_' = Normalise(test_input, ArrayMin(test_input),
                            ArrayMax(test_input))
    /\ y_test_' = Normalise(test_targets, ArrayMin(test_targets),
                            ArrayMax(test_targets))
    /\ pcN' = "done"
    /\ UNCHANGED <<train_input, train_targets, test_input, test_targets>>
    /\ UNCHANGED <<vars03, vars04, varsSA, varsT>>

\* x_min, x_max = ...; x_ = ...; y_min, y_max = ...; y_ = ...;
\* x_test_ = ...; y_test_ = ...
NormaliseCell ==
    /\ pcN = "cell"
    /\ x_min' = ArrayMin(train_input)
    /\ x_max' = ArrayMax(train_input)
    /\ x_' = Normalise(train_input, x_min', x_max')
    /\ y_min' = ArrayMin(train_targets)
    /\ y_max' = ArrayMax(train_targets)
    /\ y_' = Normalise(train_targets, y_min', y_max')
    /\ x_test_' = Normalise(test_input, x_min', x_max')
    /\ y_test_' = Normalise(test_targets, y_min', y_max')
    /\ pcN' = "done"
    /\ UNCHANGED <<train_input, train_targets, test_input, test_targets>>
    /\ UNCHANGED <<vars03, vars04, varsSA, varsT>>

NextNorm == NormaliseCell

(***************************************************************************)
(* Notebooks 03 and 04: the training loops.  train_autoencoder and         *)
(* train_regression are followed statement by statement for each of the    *)
(* notebooks' calls that enters the function: model, lmodel and cmodel in  *)
(* notebook 03, plainfcn and attmodel in notebook 04 (tattmodel is never   *)
(* bound: its class sits in a markdown cell).  A batch is named by the     *)
(* loader that yielded it, the epoch and its index; a prediction by the    *)
(* model, the state of its weights and the batch; a loss by the prediction *)
(* and the target it is compared with.                                     *)
(***************************************************************************)
Calls == {"model", "lmodel", "cmodel", "plainfcn", "attmodel"}

TrainFn(c) ==
    IF c \in {"plainfcn", "attmodel"} THEN "train_regression"
    ELSE "train_autoencoder"

\* the model whose .parameters() the optimizer of the call was built over
OptimizerParams(c) ==
    CASE c = "model" -> "model"
      [] c = "lmodel" -> "lmodel"
      [] c = "cmodel" -> "cmodel"
      [] c = "plainfcn" -> "plainfcn"
      [] c = "attmodel" -> "plainfcn"

DataLoader(batch_size) == [kind |-> "loader", batch_size |-> batch_size]

Dataset == [kind |-> "dataset", batch_size |-> 1]

\* the argument passed as train_dataloader
TrainData(c) == IF c = "cmodel" THEN Dataset ELSE DataLoader(BatchSize)

\* the argument passed as test_dataloader
TestData(c) == IF c = "cmodel" THEN Dataset ELSE DataLoader(BatchSize)

\* len(DataLoader(ds, batch_size)) with drop_last=False
LoaderLen(n, batch_size) == (n + batch_size - 1) \div batch_size

\* len(data): batches of a loader, samples of a dataset; iterating over
\* either yields that many items
DataLen(data, n) ==
    IF data.kind = "dataset" THEN n ELSE LoaderLen(n, data.batch_size)

\* the item number i that `data` yields in epoch e, split in (X, y)
Batch(data, e, i) == [data |-> data, epoch |-> e, idx |-> i]

InputOf(batch) == [part |-> "X", batch |-> batch]

TargetOf(batch) == [part |-> "y", batch |-> batch]

\* model(x)
Predict(m, weights, x) == [model |-> m, params |-> weights, input |-> x]

\* crit(prediction, target), and loss.item()
Crit(prediction, target) ==
    [kind |-> "loss", pred |-> prediction, target |-> target]

\* an entry of torch.zeros(...)
Zero == [kind |-> "zero"]

\* buffer.mean()
Mean(buffer) == [kind |-> "mean", over |-> buffer]

SampleCounts == (1 .. MaxSamples) \cup {BatchSize + 1}

IdleT ==
    /\ pcT = "off"
    /\ call = "model"
    /\ opt_params = "model"
    /\ n_train = 1
    /\ n_test = 1
    /\ max_epochs = 0
    /\ ntrainsteps = 0
    /\ nteststeps = 0
    /\ epoch = 0
    /\ idx = 0
    /\ train_loss = <<>>
    /\ test_loss = <<>>
    /\ results = Unset
    /\ y_hat = Unset
    /\ loss = Unset
    /\ X_prime_test = Unset
    /\ loss_ = Unset
    /\ grad = [m \in Calls |-> <<>>]
    /\ params = [m \in Calls |-> 0]
    /\ training = TRUE
    /\ grad_enabled = TRUE
    /\ forward_calls = 0
    /\ step_calls = 0
    /\ test_evals = 0

\* the cell that builds the optimizer and calls the training function
InitTrain ==
    /\ pcT = "call"
    /\ call \in Calls
    /\ opt_params = OptimizerParams(call)
    /\ n_train \in SampleCounts
    /\ n_test \in SampleCounts
    /\ max_epochs \in 0 .. MaxEpochs
    /\ ntrainsteps = 0
    /\ nteststeps = 0
    /\ epoch = 0
    /\ idx = 0
    /\ train_loss = <<>>
    /\ test_loss = <<>>
    /\ results = Unset
    /\ y_hat = Unset
    /\ loss = Unset
    /\ X_prime_test = Unset
    /\ loss_ = Unset
    /\ grad = [m \in Calls |-> <<>>]
    /\ params = [m \in Calls |-> 0]
    /\ training = TRUE
    /\ grad_enabled = TRUE
    /\ forward_calls = 0
    /\ step_calls = 0
    /\ test_evals = 0

argsT == <<call, opt_params, n_train, n_test, max_epochs>>

\* results = {...}; ntrainsteps = len(...); nteststeps = len(...);
\* train_loss, test_loss = torch.zeros(...), torch.zeros(...)
Call ==
    /\ pcT = "call"
    /\ results' = [train_losses |-> <<>>, test_losses |-> <<>>]
    /\ ntrainsteps' = DataLen(TrainData(call), n_train)
    /\ nteststeps' = DataLen(TestData(call), n_test)
    /\ train_loss' = [i \in 1 .. ntrainsteps' |-> Zero]
    /\ test_loss' = [i \in 1 .. nteststeps' |-> Zero]
    /\ epoch' = 0
    /\ pcT' = "epoch"
    /\ UNCHANGED <<argsT, idx, y_hat, loss, X_prime_test, loss_, grad, params,
                   training, grad_enabled, forward_calls, step_calls,
                   test_evals>>
    /\ UNCHANGED <<vars03, vars04, varsSA, varsN>>

EpochStart_OneMore ==
    /\ pcT = "epoch"
    /\ IF epoch <= max_epochs
       THEN /\ training' = (TrainFn(call) = "train_regression" \/ training)
            /\ idx' = 0
            /\ pcT' = IF ntrainsteps > 0 THEN "forward" ELSE "eval"
       ELSE /\ pcT' = "return"
            /\ UNCHANGED <<training, idx>>
    /\ UNCHANGED <<argsT, ntrainsteps, nteststeps, epoch, train_loss,
                   test_loss, results, y_hat, loss, X_prime_test, loss_, grad,
                   params, grad_enabled, forward_calls, step_calls,
                   test_evals>>
    /\ UNCHANGED <<vars03, vars04, varsSA, varsN>>

\* for epoch in range(max_epochs): [model.train()]
\*     for idx, (X, y) in enumerate(train_dataloader):
EpochStart ==
    /\ pcT = "epoch"
    /\ IF epoch < max_epochs
       THEN /\ training' = (TrainFn(call) = "train_regression" \/ training)
            /\ idx' = 0
            /\ pcT' = IF ntrainsteps > 0 THEN "forward" ELSE "eval"
       ELSE /\ pcT' = "return"
            /\ UNCHANGED <<training, idx>>
    /\ UNCHANGED <<argsT, ntrainsteps, nteststeps, epoch, train_loss,
                   test_loss, results, y_hat, loss, X_prime_test, loss_, grad,
                   params, grad_enabled, forward_calls, step_calls,
                   test_evals>>
    /\ UNCHANGED <<vars03, vars04, varsSA, varsN>>

\* X_prime = model(X)  /  y_hat = model(X)
Forward ==
    /\ pcT = "forward"
    /\ y_hat' = Predict(call, params[call],
                        InputOf(Batch("train", epoch, idx)))
    /\ forward_calls' = forward_calls + 1
    /\ pcT' = "loss"
    /\ UNCHANGED <<argsT, ntrainsteps, nteststeps, epoch, idx, train_loss,
                   test_loss, results, loss, X_prime_test, loss_, grad,
                   params, training, grad_enabled, step_calls, test_evals>>
    /\ UNCHANGED <<vars03, vars04, varsSA, varsN>>

\* loss = crit(X_prime, X)  /  loss = crit(y_hat, y)
Loss ==
    /\ pcT = "loss"
    /\ loss' = IF TrainFn(call) = "train_regression"
               THEN Crit(y_hat, TargetOf(Batch("train", epoch, idx)))
               ELSE Crit(y_hat, InputOf(Batch("train", epoch, idx)))
    /\ pcT' = "backward"
    /\ UNCHANGED <<argsT, ntrainsteps, nteststeps, epoch, idx, train_loss,
                   test_loss, results, y_hat, X_prime_test, loss_, grad,
                   params, training, grad_enabled, forward_calls, step_calls,
                   test_evals>>
    /\ UNCHANGED <<vars03, vars04, varsSA, varsN>>

\* loss.backward(): adds the gradient of this batch's loss to the .grad of
\* the parameters of the model that produced the prediction
Backward ==
    /\ pcT = "backward"
    /\ grad' = [grad EXCEPT ![loss.pred.model] =
                               Append(@, loss.pred.input.batch)]
    /\ pcT' = "step"
    /\ UNCHANGED <<argsT, ntrainsteps, nteststeps, epoch, idx, train_loss,
                   test_loss, results, y_hat, loss, X_prime_test, loss_,
                   params, training, grad_enabled, forward_calls, step_calls,
                   test_evals>>
    /\ UNCHANGED <<vars03, vars04, varsSA, varsN>>

\* opt.step(): updates the optimizer's parameters that have a gradient
Step ==
    /\ pcT = "step"
    /\ params' = [params EXCEPT ![opt_params] =
                                   IF grad[opt_params] # <<>> THEN @ + 1
                                   ELSE @]
    /\ step_calls' = step_calls + 1
    /\ pcT' = "zero_grad"
    /\ UNCHANGED <<argsT, ntrainsteps, nteststeps, epoch, idx, train_loss,
                   test_loss, results, y_hat, loss, X_prime_test, loss_, grad,
                   training, grad_enabled, forward_calls, test_evals>>
    /\ UNCHANGED <<vars03, vars04, varsSA, varsN>>

ZeroGrad_Skipped ==
    /\ pcT = "zero_grad"
    /\ grad' = grad
    /\ pcT' = "record"
    /\ UNCHANGED <<argsT, ntrainsteps, nteststeps, epoch, idx, train_loss,
                   test_loss, results, y_hat, loss, X_prime_test, loss_,
                   params, training, grad_enabled, forward_calls, step_calls,
                   test_evals>>
    /\ UNCHANGED <<vars03, vars04, varsSA, varsN>>

\* opt.zero_grad(): clears the .grad of the optimizer's parameters
ZeroGrad ==
    /\ pcT = "zero_grad"
    /\ grad' = [grad EXCEPT ![opt_params] = <<>>]
    /\ pcT' = "record"
    /\ UNCHANGED <<argsT, ntrainsteps, nteststeps, epoch, idx, train_loss,
                   test_loss, results, y_hat, loss, X_prime_test, loss_,
                   params, training, grad_enabled, forward_calls, step_calls,
                   test_evals>>
    /\ UNCHANGED <<vars03, vars04, varsSA, varsN>>

RecordTrainLoss_FirstSlot ==
    /\ pcT = "record"
    /\ train_loss' = [train_loss EXCEPT ![1] = loss]
    /\ idx' = idx + 1
    /\ pcT' = IF idx + 1 < ntrainsteps THEN "forward" ELSE "eval"
    /\ UNCHANGED <<argsT, ntrainsteps, nteststeps, epoch, test_loss, results,
                   y_hat, loss, X_prime_test, loss_, grad, params, training,
                   grad_enabled, forward_calls, step_calls, test_evals>>
    /\ UNCHANGED <<vars03, vars04, varsSA, varsN>>

\* train_loss[idx] = loss.item(), and the next item of the training data
RecordTrainLoss ==
    /\ pcT = "record"
    /\ train_loss' = [train_loss EXCEPT ![idx + 1] = loss]
    /\ idx' = idx + 1
    /\ pcT' = IF idx + 1 < ntrainsteps THEN "forward" ELSE "eval"
    /\ UNCHANGED <<argsT, ntrainsteps, nteststeps, epoch, test_loss, results,
                   y_hat, loss, X_prime_test, loss_, grad, params, training,
                   grad_enabled, forward_calls, step_calls, test_evals>>
    /\ UNCHANGED <<vars03, vars04, varsSA, varsN>>

\* [model.eval(); with torch.no_grad():]
\*     for idx, (X_test, y_test) in enumerate(test_dataloader):
EvalStart ==
    /\ pcT = "eval"
    /\ training' = (TrainFn(call) # "train_regression" /\ training)
    /\ grad_enabled' = (TrainFn(call) # "train_regression" /\ grad_enabled)
    /\ idx' = 0
    /\ pcT' = IF nteststeps > 0 THEN "test_forward" ELSE "append"
    /\ UNCHANGED <<argsT, ntrainsteps, nteststeps, epoch, train_loss,
                   test_loss, results, y_hat, loss, X_prime_test, loss_, grad,
                   params, forward_calls, step_calls, test_evals>>
    /\ UNCHANGED <<vars03, vars04, varsSA, varsN>>

\* X_prime_test = model(X_test)
TestForward ==
    /\ pcT = "test_forward"
    /\ X_prime_test' = Predict(call, params[call],
                               InputOf(Batch("test", epoch, idx)))
    /\ forward_calls' = forward_calls + 1
    /\ pcT' = "test_loss"
    /\ UNCHANGED <<argsT, ntrainsteps, nteststeps, epoch, idx, train_loss,
                   test_loss, results, y_hat, loss, loss_, grad, params,
                   training, grad_enabled, step_calls, test_evals>>
    /\ UNCHANGED <<vars03, vars04, varsSA, varsN>>

\* loss_ = crit(X_prime_test, X_test), in both functions
TestLoss ==
    /\ pcT = "test_loss"
    /\ loss_' = Crit(X_prime_test, InputOf(Batch("test", epoch, idx)))
    /\ test_evals' = test_evals + 1
    /\ pcT' = "test_record"
    /\ UNCHANGED <<argsT, ntrainsteps, nteststeps, epoch, idx, train_loss,
                   test_loss, results, y_hat, loss, X_prime_test, grad,
                   params, training, grad_enabled, forward_calls, step_calls>>
    /\ UNCHANGED <<vars03, vars04, varsSA, varsN>>

\* test_loss[idx] = loss_.item(), and the next item of the test data
RecordTestLoss ==
    /\ pcT = "test_record"
    /\ test_loss' = [test_loss EXCEPT ![idx + 1] = loss_]
    /\ idx' = idx + 1
    /\ pcT' = IF idx + 1 < nteststeps THEN "test_forward" ELSE "append"
    /\ UNCHANGED <<argsT, ntrainsteps, nteststeps, epoch, train_loss, results,
                   y_hat, loss, X_prime_test, loss_, grad, params, training,
                   grad_enabled, forward_calls, step_calls, test_evals>>
    /\ UNCHANGED <<vars03, vars04, varsSA, varsN>>

\* results["train_losses"].append(train_loss.mean());
\* results["test_losses"].append(test_loss.mean()); print(...); the end of
\* the with block and of the epoch
AppendMeans ==
    /\ pcT = "append"
    /\ results' = [train_losses |->
                       Append(results.train_losses, Mean(train_loss)),
                   test_losses |->
                       Append(results.test_losses, Mean(test_loss))]
    /\ grad_enabled' = TRUE
    /\ epoch' = epoch + 1
    /\ pcT' = "epoch"
    /\ UNCHANGED <<argsT, ntrainsteps, nteststeps, idx, train_loss, test_loss,
                   y_hat, loss, X_prime_test, loss_, grad, params, training,
                   forward_calls, step_calls, test_evals>>
    /\ UNCHANGED <<vars03, vars04, varsSA, varsN>>

\* return results
Return ==
    /\ pcT = "return"
    /\ pcT' = "returned"
    /\ UNCHANGED <<argsT, ntrainsteps, nteststeps, epoch, idx, train_loss,
                   test_loss, results, y_hat, loss, X_prime_test, loss_, grad,
                   params, training, grad_enabled, forward_calls, step_calls,
                   test_evals>>
    /\ UNCHANGED <<vars03, vars04, varsSA, varsN>>

NextTrain ==
    \/ Call
    \/ EpochStart
    \/ Forward
    \/ Loss
    \/ Backward
    \/ Step
    \/ ZeroGrad
    \/ RecordTrainLoss
    \/ EvalStart
    \/ TestForward
    \/ TestLoss
    \/ RecordTestLoss
    \/ AppendMeans
    \/ Return

(***************************************************************************)
(* Claims about the training loops.                                        *)
(***************************************************************************)
Entered == pcT \notin {"off", "call"}

Regression == Entered /\ TrainFn(call) = "train_regression"

\* the index of the batch, of the loader `data`, that p predicts for
BatchOfPrediction(p) == p.input.batch

\* C11: in train_regression every per-batch test loss is the criterion
\* applied to the model's prediction for X_test and the target y_test of the
\* same batch, the pairing (prediction, target) that the training loss
\* crit(y_hat, y) uses.
C11_TestLossComparesPredictionWithTarget ==
    Regression =>
        /\ \A i \in 1 .. Len(train_loss) :
               train_loss[i].kind = "loss" =>
                   train_loss[i].target
                       = TargetOf(BatchOfPrediction(train_loss[i].pred))
        /\ \A i \in 1 .. Len(test_loss) :
               test_loss[i].kind = "loss" =>
                   test_loss[i].target
                       = TargetOf(BatchOfPrediction(test_loss[i].pred))

\* C12: in every call train_regression(model, opt, ...) of notebook 04 the
\* optimizer was built over the parameters of the model that is trained, so
\* every opt.step() updates the parameters whose gradients loss.backward()
\* has just computed: the trained model's weights change with every step.
C12_OptimizerHoldsTheTrainedModel ==
    (Regression /\ step_calls > 0) =>
        /\ opt_params = call
        /\ params[call] = step_calls

\* the mean of the losses of the n batches that `data` yielded in epoch e
IsMeanOfEpoch(m, data, e, n) ==
    /\ m.kind = "mean"
    /\ Len(m.over) = n
    /\ \A i \in 1 .. n :
           /\ m.over[i].kind = "loss"
           /\ BatchOfPrediction(m.over[i].pred) = Batch(data, e, i - 1)

\* C13: after train_autoencoder or train_regression has returned,
\* results["train_losses"] and results["test_losses"] hold max_epochs
\* entries each, and entry k is the mean of the per-batch losses computed
\* during epoch k only: every slot of the reused buffers has been
\* overwritten in that epoch (the data yield len(data) items per epoch).
C13_OneMeanPerEpoch ==
    pcT = "returned" =>
        /\ Len(results.train_losses) = max_epochs
        /\ Len(results.test_losses) = max_epochs
        /\ \A k \in 1 .. max_epochs :
               /\ IsMeanOfEpoch(results.train_losses[k], "train", k - 1,
                                ntrainsteps)
               /\ IsMeanOfEpoch(results.test_losses[k], "test", k - 1,
                                nteststeps)

C13_Witness ==
    /\ pcT = "returned"
    /\ max_epochs >= 2
    /\ ntrainsteps >= 2
    /\ nteststeps >= 2
    /\ Len(results.train_losses) = max_epochs

(***************************************************************************)
(* Claims about the normalisation.                                         *)
(***************************************************************************)
Normalised == pcN = "done"

\* 0 <= f <= 1, for a fraction f (nan and the infinities are outside)
InUnitRange(f) == f[2] > 0 /\ 0 <= f[1] /\ f[1] <= f[2]

\* a_ is a scaled into [0, 1], its minimum at 0 and its maximum at 1
ScaledToUnitRange(a, a_) ==
    /\ Len(a_) = Len(a)
    /\ \A i \in 1 .. Len(a) :
           /\ InUnitRange(a_[i])
           /\ a[i] = ArrayMin(a) <=> a_[i] = <<0, 1>>
           /\ a[i] = ArrayMax(a) <=> a_[i] = <<1, 1>>

\* C14: after the normalisation cell every element of x_ and of y_ lies in
\* [0, 1], the minimum of train_input is mapped to 0 and its maximum to 1,
\* and likewise for train_targets, whenever the maximum is greater than the
\* minimum.
C14_TrainingDataScaledToUnitRange ==
    Normalised =>
        /\ x_max > x_min => ScaledToUnitRange(train_input, x_)
        /\ y_max > y_min => ScaledToUnitRange(train_targets, y_)

C14_Witness ==
    /\ Normalised
    /\ x_max > x_min
    /\ y_max > y_min
    /\ \E i \in 1 .. Len(x_) : x_[i] \notin {<<0, 1>>, <<1, 1>>}
    /\ \E i \in 1 .. Len(y_) : y_[i] = <<1, 1>>

\* b_, the array b normalised with the minimum and maximum of a, lies in
\* [0, 1]
TestDataInUnitRange(b_) == \A i \in 1 .. Len(b_) : InUnitRange(b_[i])

\* C15 as stated: for every test set, every element of x_test_ and of
\* y_test_, normalised with the minimum and maximum of the training data
\* (maximum greater than minimum), is >= 0 and <= 1.
C15_TestDataInUnitRange ==
    (Normalised /\ x_max > x_min /\ y_max > y_min) =>
        /\ TestDataInUnitRange(x_test_)
        /\ TestDataInUnitRange(y_test_)

\* element i of b_ is (b[i] - lo) / (hi - lo): in [0, 1] exactly when b[i]
\* lies between lo and hi, below 0 when b[i] < lo and above 1 when b[i] > hi
ScaledByTrainingRange(b, b_, lo, hi) ==
    /\ Len(b_) = Len(b)
    /\ \A i \in 1 .. Len(b) :
           /\ b_[i][2] > 0
           /\ b_[i][1] * (hi - lo) = (b[i] - lo) * b_[i][2]
           /\ InUnitRange(b_[i]) <=> (lo <= b[i] /\ b[i] <= hi)
           /\ b_[i][1] < 0 <=> b[i] < lo
           /\ b_[i][1] > b_[i][2] <=> b[i] > hi

\* C15: the test data are scaled with the minimum and maximum of the
\* training data (maximum greater than minimum): an element of x_test_ or
\* y_test_ lies in [0, 1] exactly when the test value lies within the range
\* of the training values, and is negative or greater than 1 otherwise.
C15_TestDataScaledByTrainingRange ==
    Normalised =>
        /\ x_max > x_min
             => ScaledByTrainingRange(test_input, x_test_, x_min, x_max)
        /\ y_max > y_min
             => ScaledByTrainingRange(test_targets, y_test_, y_min, y_max)

C15_Witness ==
    /\ Normalised
    /\ x_max > x_min
    /\ y_max > y_min
    /\ \E i \in 1 .. Len(x_test_) : x_test_[i][1] > x_test_[i][2]
    /\ \E i \in 1 .. Len(y_test_) : y_test_[i][1] < 0

(***************************************************************************)
(* Claims about the training loops, continued.                             *)
(***************************************************************************)
\* the order of the statements of one training batch
NextStatement(pc) ==
    CASE pc = "forward" -> {"loss"}
      [] pc = "loss" -> {"backward"}
      [] pc = "backward" -> {"step"}
      [] pc = "step" -> {"zero_grad"}
      [] pc = "zero_grad" -> {"record"}
      [] OTHER -> {"epoch", "forward", "eval", "test_forward", "test_loss",
                   "test_record", "append", "return", "returned"}

\* the gradients of the trained model are unset when loss.backward() is
\* about to run, and hold the gradient of the current batch alone when
\* opt.step() is about to run
GradientsOfOneBatch ==
    /\ pcT = "backward" => grad[call] = <<>>
    /\ pcT = "step" => grad[call] = <<Batch("train", epoch, idx)>>
    /\ pcT \notin {"step", "zero_grad"} => grad[call] = <<>>

\* C16: in train_autoencoder and train_regression, when the optimizer holds
\* the parameters of the trained model, every training batch runs forward,
\* loss, backward, opt.step, opt.zero_grad in this order; at every
\* loss.backward() the gradients of the model are unset and every
\* opt.step() uses the gradient of one batch: gradients never accumulate
\* across batches or epochs.
C16_OneBatchPerStep ==
    [][(Entered /\ opt_params = call) =>
           /\ pcT' \in NextStatement(pcT)
           /\ GradientsOfOneBatch
           /\ GradientsOfOneBatch']_vars

C16_Witness ==
    /\ Entered
    /\ opt_params = call
    /\ pcT = "step"
    /\ epoch >= 1
    /\ idx >= 1
    /\ grad[call] = <<Batch("train", epoch, idx)>>
    /\ params[call] = step_calls

\* C17: the BONUS training of cmodel runs in mini-batches through the
\* loaders built just before it: train_autoencoder iterates over
\* train_cleanloader (batch_size = 64) and test_cleanloader, so that an
\* epoch takes ceil(len(clean_train) / 64) optimizer steps and not one step
\* per sample.
C17_BonusTrainsInMiniBatches ==
    (Entered /\ call = "cmodel") =>
        /\ ntrainsteps = CeilDiv(n_train, BatchSize)
        /\ pcT = "eval"
             => step_calls = (epoch + 1) * CeilDiv(n_train, BatchSize)

TrainPhase == pcT \in {"forward", "loss", "backward", "step", "zero_grad",
                       "record"}

TestPhase == pcT \in {"test_forward", "test_loss", "test_record"}

\* what has run when the function returns
CountsAtReturn ==
    pcT = "returned" =>
        /\ step_calls = max_epochs * ntrainsteps
        /\ test_evals = max_epochs * nteststeps
        /\ forward_calls = max_epochs * (ntrainsteps + nteststeps)
        /\ Len(results.train_losses) = max_epochs
        /\ Len(results.test_losses) = max_epochs

\* an epoch's training batches all come before its test batches
TrainingBeforeTest ==
    /\ TrainPhase => test_evals = epoch * nteststeps
    /\ TestPhase => step_calls = (epoch + 1) * ntrainsteps

\* with max_epochs = 0 no statement of the loop body runs
NothingRunsForZeroEpochs ==
    (Entered /\ max_epochs = 0) =>
        /\ pcT \in {"epoch", "return", "returned"}
        /\ forward_calls = 0
        /\ step_calls = 0
        /\ test_evals = 0
        /\ results = [train_losses |-> <<>>, test_losses |-> <<>>]

\* C18: for finite data train_autoencoder and train_regression always
\* return, after max_epochs * len(train_dataloader) optimizer steps and
\* max_epochs * len(test_dataloader) test evaluations, every epoch's
\* training batches before its test batches; with max_epochs = 0 they
\* return two empty lists without a forward pass or an optimizer step.
C18_ReturnsAfterAllEpochs ==
    /\ <>(pcT = "returned")
    /\ [](CountsAtReturn /\ TrainingBeforeTest /\ NothingRunsForZeroEpochs)

C18_Witness ==
    /\ pcT = "returned"
    /\ max_epochs >= 2
    /\ ntrainsteps >= 2
    /\ nteststeps >= 2
    /\ step_calls = max_epochs * ntrainsteps
    /\ test_evals = max_epochs * nteststeps

(***************************************************************************)
(* Specifications: one per part of the notebooks.                          *)
(***************************************************************************)
InitAE == Init03 /\ Idle04 /\ IdleSA /\ IdleN /\ IdleT

SpecAE == InitAE /\ [][Next03]_vars

InitFCN == Idle03 /\ Init04 /\ IdleSA /\ IdleN /\ IdleT

SpecFCN == InitFCN /\ [][Next04]_vars

InitAttention == Idle03 /\ Idle04 /\ InitSA /\ IdleN /\ IdleT

SpecSA == InitAttention /\ [][NextSA]_vars

InitNormalise == Idle03 /\ Idle04 /\ IdleSA /\ InitNorm /\ IdleT

SpecNorm == InitNormalise /\ [][NextNorm]_vars

InitTraining == Idle03 /\ Idle04 /\ IdleSA /\ IdleN /\ InitTrain

SpecTrain == InitTraining /\ [][NextTrain]_vars

\* the notebook runs the statements of the function one after the other:
\* a statement that can run does run
SpecTrainFair == SpecTrain /\ WF_vars(NextTrain)

====
